---- MODULE Spec2Model ----
(***************************************************************************)
(* A model of wkalt/migrate (src/migrate.go): Migrate applies the          *)
(* outstanding migrations of a map[int]Migration to a database, each in a  *)
(* transaction of its own, and records each in schema_migrations.          *)
(*                                                                         *)
(* The database is what the code can observe of it: whether the table      *)
(* schema_migrations exists, its rows (the versions), and for each version *)
(* how many transactions carrying that migration body's changes have       *)
(* committed.  Every call into database/sql (Begin, QueryRow.Scan, Exec,   *)
(* Commit) and every migration body either succeeds or returns an error;   *)
(* which one is chosen nondeterministically.  Versions are positive        *)
(* integers, the keys of the map handed to Migrate.                        *)
(***************************************************************************)
EXTENDS Integers, Sequences, FiniteSets, TLC

\* ------------------------------------------------------------- bounds
MaxVersion == 3
MaxCalls == 2
MaxDrops == 2

Versions == 1..MaxVersion

\* The callers of Migrate: operating-system processes sharing one database.
Procs == {"a", "b"}
\* The sequential specification runs one of them.
Sequential == {"a"}

VARIABLES
  tableExists,  \* the database: schema_migrations exists
  records,      \* the database: the committed rows of schema_migrations (versions)
  effects,      \* the database: per version, committed transactions that carried its body's changes
  pc,           \* per process: the statement of Migrate/withTx it is at
  f,            \* per process: the closure withTx is running ("read" or "apply")
  migrations,   \* per process: the keys of the map passed to Migrate
  keys,         \* per process: Migrate's local keys
  maxApplied,   \* per process: Migrate's local maxApplied
  i,            \* per process: position of the range loop over keys
  tx,           \* per process: the transaction withTx holds, with its uncommitted writes
  ret,          \* per process: what the last top-level Migrate returned
  notices,      \* per process: versions logged "Applied migration %d" during the call
  committed,    \* history: versions whose apply transaction has committed
  hist,         \* history: per process, what happened in the current and the previous call
  drops         \* environment: times another client dropped schema_migrations

vars == <<tableExists, records, effects, pc, f, migrations, keys, maxApplied,
          i, tx, ret, notices, committed, hist, drops>>

\* ------------------------------------------------------------- errors
\* An error value is the chain errors.Unwrap walks, outermost context first;
\* nil is the empty chain.
Nil == <<>>

\* fmt.Errorf("ctx: %w", err)
Wrap(ctx, err) == <<ctx>> \o err

\* errors.Is(err, target) for a sentinel target: target is the tail of the chain
\* from some link on.
Is(err, target) ==
  \E n \in 1..Len(err) : SubSeq(err, n, Len(err)) = target

errMissingSchemaMigration == <<"missing schema migrations">>

\* What the driver hands back when the watermark query fails: the type of the
\* error value and what it reports.
DriverErrors ==
  [driver : {"pq", "sqlite3", "foreign"}, code : {"undefined_table", "other"}]

isUndefinedTableAnyDriver(err) == <<err.code = "undefined_table", Nil>>

\* The (bool, error) pair of isUndefinedTable.
isUndefinedTable(err) ==
  IF err.driver = "pq" THEN <<err.code = "undefined_table", Nil>>
  ELSE IF err.driver = "sqlite3" THEN <<err.code = "undefined_table", Nil>>
  ELSE <<FALSE, <<"unsupported driver">>>>

ReadErrorUnwrapped(err) ==
  LET r == isUndefinedTable(err)
  IN IF r[2] # Nil THEN Wrap("failed to parse error", r[2])
     ELSE IF r[1] THEN errMissingSchemaMigration
     ELSE <<"query failed">>

\* The error the closure of the watermark read returns for a failed Scan.
ReadError(err) ==
  LET r == isUndefinedTable(err)
  IN IF r[2] # Nil THEN Wrap("failed to parse error", r[2])
     ELSE IF r[1] THEN errMissingSchemaMigration
     ELSE Wrap("failed to select max applied migration", <<"query failed">>)

\* ------------------------------------------------------------ helpers
Max(S) == CHOOSE x \in S : \A y \in S : y <= x

Min(S) == CHOOSE x \in S : \A y \in S : x <= y

Range(s) == {s[n] : n \in 1..Len(s)}

\* The orders in which ranging over a map with key set S can yield its keys.
Orders(S) ==
  {s \in [1..Cardinality(S) -> S] : \A a, b \in 1..Cardinality(S) : a # b => s[a] # s[b]}

OutOfOrder(s) == \E a, b \in 1..Len(s) : a < b /\ s[a] > s[b]

RECURSIVE InsertSorted(_, _)
InsertSorted(x, s) ==
  IF s = <<>> THEN <<x>>
  ELSE IF x <= Head(s) THEN <<x>> \o s
  ELSE <<Head(s)>> \o InsertSorted(x, Tail(s))

SortIntsSkipped(s) == s

\* sort.Ints
RECURSIVE SortInts(_)
SortInts(s) ==
  IF s = <<>> THEN <<>> ELSE InsertSorted(Head(s), SortInts(Tail(s)))

SelectMin(rows) == IF rows = {} THEN -1 ELSE Min(rows)

\* select coalesce(max(version), -1) from schema_migrations
SelectMax(rows) == IF rows = {} THEN -1 ELSE Max(rows)

SkipBelow(k, max) == k < max

\* The loop's test "if k <= maxApplied { continue }".
Skip(k, max) == k <= max

\* --------------------------------------------------------- transactions
NoTx == [open |-> FALSE, eff |-> {}, rec |-> {}]

OpenTx == [open |-> TRUE, eff |-> {}, rec |-> {}]

CommittedAsUpdate(t) ==
  [records |-> IF t.rec = {} THEN records ELSE t.rec,
   effects |-> [v \in Versions |-> effects[v] + (IF v \in t.eff THEN 1 ELSE 0)]]

\* The database after tx.Commit() succeeds: the writes become visible together.
Committed(t) ==
  [records |-> records \cup t.rec,
   effects |-> [v \in Versions |-> effects[v] + (IF v \in t.eff THEN 1 ELSE 0)]]

RolledBackAsCommitted(t) == Committed(t)

\* The database after tx.Rollback(), or after a Commit that failed: no write of
\* the transaction is visible.
RolledBack(t) == [records |-> records, effects |-> effects]

AfterRollbackMissing(t) == t

\* The transaction after withTx's "tx.Rollback(); return err": finished.
AfterRollback(t) == NoTx

\* ------------------------------------------------------------- history
NoCall ==
  [set |-> {}, ret |-> Nil, failedAt |-> 0, invoked |-> <<>>]

InitHist ==
  [calls |-> 0,          \* top-level calls started
   shuffled |-> FALSE,   \* ranging over the map yielded a larger key before a smaller
   startTable |-> FALSE, \* the database when the call started
   startRecords |-> {},
   startEffects |-> [v \in Versions |-> 0],
   invoked |-> <<>>,     \* versions whose body was invoked, in order
   wmRead |-> FALSE,     \* the watermark read committed
   bodyFailed |-> FALSE, \* a body returned an error
   dbFault |-> FALSE,    \* a database call failed for a reason other than the missing table
   txFailed |-> FALSE,   \* a migration's withTx returned an error
   failedAt |-> 0,       \* the version whose withTx returned an error
   applied |-> {},       \* versions whose transaction committed in this call
   inits |-> 0,          \* times initializeSchemaMigrations created the table
   retries |-> 0,        \* times Migrate called itself
   qerr |-> "none",      \* the failed watermark query: "foreign" (not a pq or sqlite3 error) or "other"
   initFailed |-> FALSE, \* initializeSchemaMigrations returned an error
   prev |-> NoCall]      \* the previous top-level call

Returned(p) == pc[p] = "idle" /\ hist[p].calls > 0

\* ---------------------------------------------------------------- Init
Init ==
  /\ tableExists = FALSE
  /\ records = {}
  /\ effects = [v \in Versions |-> 0]
  /\ pc = [p \in Procs |-> "idle"]
  /\ f = [p \in Procs |-> "read"]
  /\ migrations = [p \in Procs |-> {}]
  /\ keys = [p \in Procs |-> <<>>]
  /\ maxApplied = [p \in Procs |-> 0]
  /\ i = [p \in Procs |-> 1]
  /\ tx = [p \in Procs |-> NoTx]
  /\ ret = [p \in Procs |-> Nil]
  /\ notices = [p \in Procs |-> <<>>]
  /\ committed = {}
  /\ hist = [p \in Procs |-> InitHist]
  /\ drops = 0

\* ------------------------------------------------------------- returns
\* Migrate returns err to its caller (through the recursive frame, if any).
Return(p, err, h) ==
  /\ pc' = [pc EXCEPT ![p] = "idle"]
  /\ ret' = [ret EXCEPT ![p] = err]
  /\ hist' = [hist EXCEPT ![p] = h]
  /\ UNCHANGED <<f, i>>

AfterWithTxSwallow(p, err, h) ==
  IF f[p] = "read" /\ err # Nil
  THEN IF Is(err, errMissingSchemaMigration)
       THEN /\ pc' = [pc EXCEPT ![p] = "init"]
            /\ hist' = [hist EXCEPT ![p] = h]
            /\ UNCHANGED <<f, i, ret>>
       ELSE Return(p, err, h)
  ELSE /\ pc' = [pc EXCEPT ![p] = "loop"]
       /\ i' = [i EXCEPT ![p] = IF f[p] = "read" THEN 1 ELSE i[p] + 1]
       /\ hist' = [hist EXCEPT ![p] = h]
       /\ UNCHANGED <<f, ret>>

\* What Migrate does with the error withTx returned: "if err != nil" after
\* the watermark read (lines 60-68) and after a migration (lines 87-89).
AfterWithTx(p, err, h) ==
  IF err = Nil
  THEN /\ pc' = [pc EXCEPT ![p] = "loop"]
       /\ i' = [i EXCEPT ![p] = IF f[p] = "read" THEN 1 ELSE i[p] + 1]
       /\ hist' = [hist EXCEPT ![p] = h]
       /\ UNCHANGED <<f, ret>>
  ELSE IF f[p] = "read" /\ Is(err, errMissingSchemaMigration)
       THEN /\ pc' = [pc EXCEPT ![p] = "init"]
            /\ hist' = [hist EXCEPT ![p] = h]
            /\ UNCHANGED <<f, i, ret>>
       ELSE Return(p, err, h)

\* The history of a failed unit of work: a migration's failure is recorded with
\* its version.
Failed(p, h) ==
  IF f[p] = "apply"
  THEN [h EXCEPT !.txFailed = TRUE, !.failedAt = keys[p][i[p]]]
  ELSE h

Fault(h) == [h EXCEPT !.dbFault = TRUE]

\* ------------------------------------------------------------- actions
\* A caller that has made fewer than limit calls invokes
\* Migrate(db, migrations) with a map whose keys are M.
Invoke(p, limit) ==
  /\ pc[p] = "idle"
  /\ hist[p].calls < limit
  /\ \E M \in SUBSET Versions :
       /\ migrations' = [migrations EXCEPT ![p] = M]
       /\ hist' = [hist EXCEPT ![p] =
            [InitHist EXCEPT
               !.calls = hist[p].calls + 1,
               !.startTable = tableExists,
               !.startRecords = records,
               !.startEffects = effects,
               !.prev = IF hist[p].calls = 0 THEN NoCall
                        ELSE [set |-> migrations[p], ret |-> ret[p],
                              failedAt |-> hist[p].failedAt,
                              invoked |-> hist[p].invoked]]]
  /\ pc' = [pc EXCEPT ![p] = "start"]
  /\ notices' = [notices EXCEPT ![p] = <<>>]
  /\ UNCHANGED <<tableExists, records, effects, f, keys, maxApplied, i, tx,
                 ret, committed, drops>>

\* A caller invokes Migrate, again and again.
Call(p) == Invoke(p, MaxCalls)

\* A process invokes Migrate once, as at the start of a deployment.
CallOnce(p) == Invoke(p, 1)

\* Migrate, lines 39-46: collect the keys in the map's iteration order, sort
\* them, declare maxApplied, and enter withTx for the watermark read.
Start(p) ==
  /\ pc[p] = "start"
  /\ \E order \in Orders(migrations[p]) :
       /\ keys' = [keys EXCEPT ![p] = SortInts(order)]
       /\ hist' = [hist EXCEPT ![p].shuffled = OutOfOrder(order)]
  /\ maxApplied' = [maxApplied EXCEPT ![p] = 0]
  /\ f' = [f EXCEPT ![p] = "read"]
  /\ i' = [i EXCEPT ![p] = 1]
  /\ pc' = [pc EXCEPT ![p] = "begin"]
  /\ UNCHANGED <<tableExists, records, effects, migrations, tx, ret, notices,
                 committed, drops>>

\* withTx, lines 107-110: db.Begin().
BeginTx(p) ==
  /\ pc[p] = "begin"
  /\ \/ /\ tx' = [tx EXCEPT ![p] = OpenTx]
        /\ pc' = [pc EXCEPT ![p] = IF f[p] = "read" THEN "query" ELSE "body"]
        /\ UNCHANGED <<f, i, ret, hist>>
     \/ /\ tx' = tx
        /\ AfterWithTx(p, <<"begin failed">>, Failed(p, Fault(hist[p])))
  /\ UNCHANGED <<tableExists, records, effects, migrations, keys, maxApplied,
                 notices, committed, drops>>

\* The closure of the watermark read, lines 47-58, and withTx's handling of its
\* result, lines 111-114.  The query is an aggregate without GROUP BY: it
\* yields one row whenever it succeeds, so Scan never returns sql.ErrNoRows.
Query(p) ==
  /\ pc[p] = "query"
  /\ \/ /\ tableExists
        /\ maxApplied' = [maxApplied EXCEPT ![p] = SelectMax(records)]
        /\ pc' = [pc EXCEPT ![p] = "commit"]
        /\ UNCHANGED <<tableExists, records, effects, tx, f, i, ret, hist>>
     \/ /\ \E err \in DriverErrors :
             /\ err.code = "undefined_table" => ~tableExists
             /\ LET after == RolledBack(tx[p])
                    h == IF err.driver = "foreign"
                         THEN [Fault(hist[p]) EXCEPT !.qerr = "foreign"]
                         ELSE IF err.code = "undefined_table" THEN hist[p]
                         ELSE [Fault(hist[p]) EXCEPT !.qerr = "other"]
                IN /\ records' = after.records
                   /\ effects' = after.effects
                   /\ tx' = [tx EXCEPT ![p] = AfterRollback(tx[p])]
                   /\ AfterWithTx(p, ReadError(err), h)
        /\ UNCHANGED <<tableExists, maxApplied>>
  /\ UNCHANGED <<migrations, keys, notices, committed, drops>>

\* withTx, lines 115-118: tx.Commit(), and what Migrate does next.
CommitTx(p) ==
  /\ pc[p] = "commit"
  /\ \/ LET after == Committed(tx[p])
            k == keys[p][i[p]]
        IN /\ records' = after.records
           /\ effects' = after.effects
           /\ committed' = IF f[p] = "apply" THEN committed \cup {k} ELSE committed
           /\ AfterWithTx(p, Nil,
                IF f[p] = "apply"
                THEN [hist[p] EXCEPT !.applied = @ \cup {k}]
                ELSE [hist[p] EXCEPT !.wmRead = TRUE])
     \/ LET after == RolledBack(tx[p])
        IN /\ records' = after.records
           /\ effects' = after.effects
           /\ committed' = committed
           /\ AfterWithTx(p, <<"commit failed">>, Failed(p, Fault(hist[p])))
  /\ tx' = [tx EXCEPT ![p] = NoTx]
  /\ UNCHANGED <<tableExists, migrations, keys, maxApplied, notices, drops>>

InitializeNoRetry(p) ==
  /\ pc[p] = "init"
  /\ \/ /\ ~tableExists
        /\ tableExists' = TRUE
        /\ Return(p, Nil, [hist[p] EXCEPT !.inits = @ + 1])
     \/ /\ tableExists' = tableExists
        /\ Return(p, Wrap("failed to initialize schema migrations",
                           <<"create table failed">>),
                  [Fault(hist[p]) EXCEPT !.initFailed = TRUE])
  /\ UNCHANGED <<records, effects, migrations, keys, maxApplied, tx, notices,
                 committed, drops>>

InitializeRetryAnyway(p) ==
  /\ pc[p] = "init"
  /\ \/ /\ ~tableExists
        /\ tableExists' = TRUE
        /\ hist' = [hist EXCEPT ![p].inits = @ + 1, ![p].retries = @ + 1]
     \/ /\ tableExists' = tableExists
        /\ hist' = [hist EXCEPT ![p] = [Fault(hist[p]) EXCEPT !.initFailed = TRUE]]
  /\ pc' = [pc EXCEPT ![p] = "start"]
  /\ UNCHANGED <<f, i, ret>>
  /\ UNCHANGED <<records, effects, migrations, keys, maxApplied, tx, notices,
                 committed, drops>>

\* Lines 61-65 with initializeSchemaMigrations, lines 95-104: create the table
\* and call Migrate again, or return the wrapped error.  Creating a table that
\* exists fails.
Initialize(p) ==
  /\ pc[p] = "init"
  /\ \/ /\ ~tableExists
        /\ tableExists' = TRUE
        /\ pc' = [pc EXCEPT ![p] = "start"]
        /\ hist' = [hist EXCEPT ![p].inits = Min({@ + 1, MaxDrops + 1}),
                                ![p].retries = Min({@ + 1, MaxDrops + 1})]
        /\ UNCHANGED <<f, i, ret>>
     \/ /\ tableExists' = tableExists
        /\ Return(p, Wrap("failed to initialize schema migrations",
                           <<"create table failed">>),
                  [Fault(hist[p]) EXCEPT !.initFailed = TRUE])
  /\ UNCHANGED <<records, effects, migrations, keys, maxApplied, tx, notices,
                 committed, drops>>

\* The range loop over keys, lines 70-74 and 92: skip a version at or below
\* maxApplied, enter withTx for the next one, or return nil after the last.
Loop(p) ==
  /\ pc[p] = "loop"
  /\ IF i[p] > Len(keys[p])
     THEN Return(p, Nil, hist[p])
     ELSE IF Skip(keys[p][i[p]], maxApplied[p])
          THEN /\ i' = [i EXCEPT ![p] = i[p] + 1]
               /\ UNCHANGED <<pc, f, ret, hist>>
          ELSE /\ pc' = [pc EXCEPT ![p] = "begin"]
               /\ f' = [f EXCEPT ![p] = "apply"]
               /\ UNCHANGED <<i, ret, hist>>
  /\ UNCHANGED <<tableExists, records, effects, migrations, keys, maxApplied,
                 tx, notices, committed, drops>>

\* The migration closure, lines 75-78: invoke the body of version k.  A body
\* that fails may have made changes in the transaction before failing; withTx
\* rolls the transaction back, lines 111-114.
Body(p) ==
  /\ pc[p] = "body"
  /\ LET k == keys[p][i[p]]
         h == [hist[p] EXCEPT !.invoked = Append(@, k)]
     IN \/ /\ tx' = [tx EXCEPT ![p].eff = @ \cup {k}]
           /\ pc' = [pc EXCEPT ![p] = "insert"]
           /\ hist' = [hist EXCEPT ![p] = h]
           /\ UNCHANGED <<records, effects, f, i, ret>>
        \/ \E wrote \in BOOLEAN :
             LET t == IF wrote THEN [tx[p] EXCEPT !.eff = @ \cup {k}] ELSE tx[p]
                 after == RolledBack(t)
             IN /\ records' = after.records
                /\ effects' = after.effects
                /\ tx' = [tx EXCEPT ![p] = AfterRollback(t)]
                /\ AfterWithTx(p, <<"migration failed">>,
                               Failed(p, [h EXCEPT !.bodyFailed = TRUE]))
  /\ UNCHANGED <<tableExists, migrations, keys, maxApplied, notices, committed,
                 drops>>

InsertOutsideTx(p) ==
  /\ pc[p] = "insert"
  /\ LET k == keys[p][i[p]]
     IN \/ /\ tableExists
           /\ k \notin records
           /\ records' = records \cup {k}
           /\ notices' = [notices EXCEPT ![p] = Append(@, k)]
           /\ pc' = [pc EXCEPT ![p] = "commit"]
           /\ UNCHANGED <<effects, tx, f, i, ret, hist>>
        \/ LET after == RolledBack(tx[p])
           IN /\ records' = after.records
              /\ effects' = after.effects
              /\ tx' = [tx EXCEPT ![p] = NoTx]
              /\ notices' = notices
              /\ AfterWithTx(p, <<"insert failed">>, Failed(p, Fault(hist[p])))
  /\ UNCHANGED <<tableExists, migrations, keys, maxApplied, committed, drops>>

InsertNoPrimaryKey(p) ==
  /\ pc[p] = "insert"
  /\ LET k == keys[p][i[p]]
     IN \/ /\ tableExists
           /\ tx' = [tx EXCEPT ![p].rec = @ \cup {k}]
           /\ notices' = [notices EXCEPT ![p] = Append(@, k)]
           /\ pc' = [pc EXCEPT ![p] = "commit"]
           /\ UNCHANGED <<records, effects, f, i, ret, hist>>
        \/ LET after == RolledBack(tx[p])
           IN /\ records' = after.records
              /\ effects' = after.effects
              /\ tx' = [tx EXCEPT ![p] = AfterRollback(tx[p])]
              /\ notices' = notices
              /\ AfterWithTx(p, <<"insert failed">>, Failed(p, Fault(hist[p])))
  /\ UNCHANGED <<tableExists, migrations, keys, maxApplied, committed, drops>>

\* The migration closure, lines 79-85: insert the record of version k in the
\* same transaction and log the notice.  The insert fails when the table is
\* missing or already holds the version (version is the primary key, lines
\* 97-100); while another open transaction holds an uncommitted row of the
\* version the insert cannot succeed: it waits for that transaction to end,
\* or fails.
Insert(p) ==
  /\ pc[p] = "insert"
  /\ LET k == keys[p][i[p]]
     IN \/ /\ tableExists
           /\ k \notin records
           /\ \A q \in Procs \ {p} : k \notin tx[q].rec
           /\ tx' = [tx EXCEPT ![p].rec = @ \cup {k}]
           /\ notices' = [notices EXCEPT ![p] = Append(@, k)]
           /\ pc' = [pc EXCEPT ![p] = "commit"]
           /\ UNCHANGED <<records, effects, f, i, ret, hist>>
        \/ LET after == RolledBack(tx[p])
           IN /\ records' = after.records
              /\ effects' = after.effects
              /\ tx' = [tx EXCEPT ![p] = AfterRollback(tx[p])]
              /\ notices' = notices
              /\ AfterWithTx(p, <<"insert failed">>, Failed(p, Fault(hist[p])))
  /\ UNCHANGED <<tableExists, migrations, keys, maxApplied, committed, drops>>

\* Another client of the database drops schema_migrations while no
\* transaction is open on it.
DropStore ==
  /\ drops < MaxDrops
  /\ tableExists
  /\ \A p \in Procs : ~tx[p].open
  /\ tableExists' = FALSE
  /\ records' = {}
  /\ drops' = drops + 1
  /\ UNCHANGED <<effects, pc, f, migrations, keys, maxApplied, i, tx, ret,
                 notices, committed, hist>>

\* The same, by a client that is not limited to MaxDrops drops.
DropStoreAgain ==
  /\ tableExists
  /\ \A p \in Procs : ~tx[p].open
  /\ tableExists' = FALSE
  /\ records' = {}
  /\ UNCHANGED <<effects, pc, f, migrations, keys, maxApplied, i, tx, ret,
                 notices, committed, hist, drops>>

\* ------------------------------------------------------ specifications
Run(p) ==
  \/ Start(p)
  \/ BeginTx(p)
  \/ Query(p)
  \/ CommitTx(p)
  \/ Initialize(p)
  \/ Loop(p)
  \/ Body(p)
  \/ Insert(p)

Step(p) == Call(p) \/ Run(p)

\* Sequential calls of Migrate by one process on a database nobody else uses.
Next == \E p \in Sequential : Step(p)

Spec == Init /\ [][Next]_vars

\* The same, on a database another client may drop schema_migrations from.
NextEnv == Next \/ DropStore

SpecEnv == Init /\ [][NextEnv]_vars

\* Two processes each calling Migrate once, concurrently, on the same
\* database: their database calls and bodies interleave in any order.
NextConc == \E p \in Procs : CallOnce(p) \/ Run(p)

SpecConc == Init /\ [][NextConc]_vars

\* Every database operation and every body returns: a call that has a step
\* to take takes it.
Returns == \A p \in Sequential : WF_vars(Run(p))

\* Sequential calls on a database nobody else uses, each operation returning.
SpecFair == Spec /\ Returns

\* One call, each operation returning, on a database from which another
\* client drops schema_migrations any number of times.
NextChurn == (\E p \in Sequential : CallOnce(p) \/ Run(p)) \/ DropStoreAgain

SpecChurn == Init /\ [][NextChurn]_vars /\ Returns

\* -------------------------------------------------------------- claims
\* The watermark of a set of rows: its maximum version, or the "none applied"
\* sentinel.
Watermark(rows) == IF rows = {} THEN -1 ELSE Max(rows)

\* The supplied versions above the watermark the database held when the call
\* of p started.
Outstanding(p) ==
  {v \in migrations[p] : v > Watermark(hist[p].startRecords)}

\* C1: in every reachable state a record for version V exists if and only if
\* the transaction that ran V's body committed, and V's body effects are
\* visible if and only if that transaction committed: record and effects
\* appear together or not at all.
C1_RecordIffCommitted ==
  \A v \in Versions :
    /\ v \in records <=> v \in committed
    /\ effects[v] > 0 <=> v \in committed

\* A call committed version 1 and then lost version 2 to a failed insert or
\* commit, after the body of 2 had written in its transaction.
C1_Witness ==
  \E p \in Procs :
    /\ Returned(p)
    /\ hist[p].applied = {1}
    /\ hist[p].failedAt = 2
    /\ hist[p].invoked = <<1, 2>>
    /\ ~hist[p].bodyFailed
    /\ records = {1}

\* C2: within one Migrate call the bodies are invoked in strictly ascending
\* version order, whatever order the map was ranged over.
C2_AscendingInvocation ==
  \A p \in Procs :
    \A a, b \in 1..Len(hist[p].invoked) :
      a < b => hist[p].invoked[a] < hist[p].invoked[b]

\* The map yielded its keys out of order and the call invoked every body.
C2_Witness ==
  \E p \in Procs :
    /\ hist[p].shuffled
    /\ Len(hist[p].invoked) = MaxVersion

\* C3 (as claimed): a second Migrate call in succession with the same
\* migration set invokes no body and leaves the database as the first call
\* left it.
C3_Original ==
  \A p \in Procs :
    (Returned(p) /\ hist[p].calls >= 2 /\ migrations[p] = hist[p].prev.set)
      => /\ hist[p].invoked = <<>>
         /\ records = hist[p].startRecords
         /\ effects = hist[p].startEffects

\* C3 (amended): when the first call returned success, the second call in
\* succession with the same migration set invokes no body and leaves the
\* database as the first call left it.
C3_Idempotent ==
  \A p \in Procs :
    (/\ Returned(p)
     /\ hist[p].calls >= 2
     /\ migrations[p] = hist[p].prev.set
     /\ hist[p].prev.ret = Nil)
      => /\ hist[p].invoked = <<>>
         /\ records = hist[p].startRecords
         /\ effects = hist[p].startEffects

\* The first call applied every version and succeeded; the second, with the
\* same set, read the watermark and returned success.
C3_Witness ==
  \E p \in Procs :
    /\ Returned(p)
    /\ hist[p].calls = 2
    /\ migrations[p] = Versions
    /\ hist[p].prev.set = Versions
    /\ hist[p].prev.ret = Nil
    /\ Len(hist[p].prev.invoked) = MaxVersion
    /\ hist[p].wmRead
    /\ ret[p] = Nil

\* C4 (as claimed): a Migrate call that read the watermark and whose bodies
\* all succeeded has invoked exactly the bodies of the supplied versions above
\* the watermark.
C4_Original ==
  \A p \in Procs :
    (Returned(p) /\ hist[p].wmRead /\ ~hist[p].bodyFailed)
      => Range(hist[p].invoked) = Outstanding(p)

\* C4 (amended): no call ever invokes a body of a version at or below the
\* watermark or of a version not supplied, and a call that returns success has
\* invoked exactly the bodies of the supplied versions above the watermark,
\* each once; after {1,2} were applied successfully, a successful call with
\* {1,2,3} invokes only body 3.
C4_OnlyOutstanding ==
  \A p \in Procs :
    /\ Range(hist[p].invoked) \subseteq Outstanding(p)
    /\ (Returned(p) /\ ret[p] = Nil)
         => /\ Range(hist[p].invoked) = Outstanding(p)
            /\ Len(hist[p].invoked) = Cardinality(Outstanding(p))
    /\ (/\ Returned(p)
        /\ ret[p] = Nil
        /\ hist[p].prev.set = {1, 2}
        /\ hist[p].prev.invoked = <<1, 2>>
        /\ hist[p].prev.ret = Nil
        /\ migrations[p] = {1, 2, 3})
         => hist[p].invoked = <<3>>

\* {1,2} were applied by a successful call and the next call, with {1,2,3},
\* returned success.
C4_Witness ==
  \E p \in Procs :
    /\ Returned(p)
    /\ ret[p] = Nil
    /\ hist[p].prev.set = {1, 2}
    /\ hist[p].prev.invoked = <<1, 2>>
    /\ hist[p].prev.ret = Nil
    /\ migrations[p] = {1, 2, 3}
    /\ hist[p].invoked = <<3>>

\* C5: when Migrate returns an error because the body of outstanding version
\* k failed, every outstanding version below k is recorded with its effects
\* visible, and neither a record nor effects exist for k or any supplied
\* version above k.
C5_FailureContainment ==
  \A p \in Procs :
    (Returned(p) /\ ret[p] # Nil /\ hist[p].bodyFailed)
      => \A v \in migrations[p] :
           /\ (v \in Outstanding(p) /\ v < hist[p].failedAt)
                => (v \in records /\ effects[v] > 0)
           /\ v >= hist[p].failedAt
                => (v \notin records /\ effects[v] = 0)

\* With {1,2,3} supplied on a fresh database, bodies 1 and 2 were committed
\* and body 3 failed.
C5_Witness ==
  \E p \in Procs :
    /\ Returned(p)
    /\ ret[p] # Nil
    /\ hist[p].bodyFailed
    /\ migrations[p] = {1, 2, 3}
    /\ hist[p].startRecords = {}
    /\ hist[p].failedAt = 3
    /\ records = {1, 2}

\* C6 (as claimed): whenever Migrate returns success, every supplied
\* migration (each is at or below the highest supplied version) has a record.
C6_Original ==
  \A p \in Procs :
    (Returned(p) /\ ret[p] = Nil) => migrations[p] \subseteq records

\* C6 (amended): whenever Migrate returns success, every supplied migration
\* whose version is above the watermark the store held when the call started
\* has a record.
C6_OutstandingRecorded ==
  \A p \in Procs :
    (Returned(p) /\ ret[p] = Nil) => Outstanding(p) \subseteq records

\* A successful call applied a version above the watermark and skipped a
\* supplied version below it, which stays unrecorded.
C6_Witness ==
  \E p \in Procs :
    /\ Returned(p)
    /\ ret[p] = Nil
    /\ hist[p].applied # {}
    /\ \E v \in migrations[p] : v \notin records /\ v < Watermark(hist[p].startRecords)

\* C7 (as claimed): a Migrate call on a database without schema_migrations
\* whose bodies all succeed returns success, creates the table and applies
\* and records every supplied migration; no body is invoked before the table
\* exists.
C7_Original ==
  \A p \in Procs :
    /\ (Returned(p) /\ ~hist[p].startTable /\ ~hist[p].bodyFailed)
         => /\ ret[p] = Nil
            /\ tableExists
            /\ \A v \in migrations[p] : v \in records /\ effects[v] > 0
    /\ (hist[p].invoked # <<>> /\ ~hist[p].startTable)
         => (tableExists /\ hist[p].inits >= 1)

\* C7 (amended): a Migrate call on a database without schema_migrations in
\* which every body succeeds and no database call fails, other than the
\* watermark query reporting the undefined table through a recognized driver,
\* returns success, creates the table and applies and records every supplied
\* migration; no body is invoked before the table exists.
C7_Bootstrap ==
  \A p \in Procs :
    /\ (/\ Returned(p)
        /\ ~hist[p].startTable
        /\ ~hist[p].bodyFailed
        /\ ~hist[p].dbFault)
         => /\ ret[p] = Nil
            /\ tableExists
            /\ hist[p].inits = 1
            /\ \A v \in migrations[p] : v \in records /\ effects[v] > 0
    /\ (hist[p].invoked # <<>> /\ ~hist[p].startTable)
         => (tableExists /\ hist[p].inits >= 1)

\* A call on the fresh database created the table, called Migrate again, and
\* applied every version.
C7_Witness ==
  \E p \in Procs :
    /\ Returned(p)
    /\ ~hist[p].startTable
    /\ ~hist[p].dbFault
    /\ hist[p].inits = 1
    /\ hist[p].retries = 1
    /\ migrations[p] = Versions
    /\ records = Versions
    /\ ret[p] = Nil

\* C8: within one top-level Migrate call the store is initialized at most
\* once and Migrate calls itself at most once, also when the watermark read
\* reports the missing table again after the initialization.
C8_SingleRecovery ==
  \A p \in Procs : hist[p].inits <= 1 /\ hist[p].retries <= 1

\* C9: once a migration's transaction has failed (begin, body, insert or
\* commit), the call has returned that error: no body of a higher version was
\* or will be invoked in the call, and what the call committed before stays
\* recorded with its effects.
C9_StopAtFirstFailure ==
  \A p \in Procs :
    hist[p].txFailed
      => /\ pc[p] = "idle"
         /\ ret[p] # Nil
         /\ \A n \in 1..Len(hist[p].invoked) : hist[p].invoked[n] <= hist[p].failedAt
         /\ \A v \in hist[p].applied :
              v \in records /\ effects[v] > 0 /\ v < hist[p].failedAt

\* A call committed a migration, then a later one failed on insert or commit
\* while a higher supplied version was still to come.
C9_Witness ==
  \E p \in Procs :
    /\ hist[p].txFailed
    /\ ~hist[p].bodyFailed
    /\ hist[p].applied # {}
    /\ \E v \in migrations[p] : v > hist[p].failedAt

\* C10: after a Migrate call failed at version k, the next call with the same
\* migration set invokes no body at or below the recorded watermark, and the
\* first body it invokes is that of k.
C10_ResumeAtFailed ==
  \A p \in Procs :
    (/\ hist[p].calls >= 2
     /\ hist[p].prev.failedAt # 0
     /\ migrations[p] = hist[p].prev.set)
      => /\ \A n \in 1..Len(hist[p].invoked) :
              hist[p].invoked[n] > Watermark(hist[p].startRecords)
         /\ hist[p].invoked # <<>> => hist[p].invoked[1] = hist[p].prev.failedAt

\* The first call committed 1 and failed at 2; the second, with the same set,
\* invoked body 2 first and went on to 3.
C10_Witness ==
  \E p \in Procs :
    /\ hist[p].calls = 2
    /\ hist[p].prev.failedAt = 2
    /\ hist[p].prev.invoked = <<1, 2>>
    /\ migrations[p] = {1, 2, 3}
    /\ hist[p].prev.set = {1, 2, 3}
    /\ hist[p].invoked = <<2, 3>>

\* C11: over any sequence of sequential Migrate calls each version's body is
\* committed at most once, and no call invokes the body of a version that
\* had a record when the call started or that the call has itself recorded
\* before.
C11_AppliedOnce ==
  /\ \A v \in Versions : effects[v] <= 1
  /\ \A p \in Procs :
       \A n \in 1..Len(hist[p].invoked) :
         /\ hist[p].invoked[n] \notin hist[p].startRecords
         /\ \A m \in 1..(n - 1) : hist[p].invoked[m] # hist[p].invoked[n]

\* A call failed after committing version 1; the next call, with every
\* version supplied again, invoked the bodies of 2 and 3 only.
C11_Witness ==
  \E p \in Procs :
    /\ hist[p].calls = 2
    /\ hist[p].prev.ret # Nil
    /\ hist[p].startRecords = {1}
    /\ migrations[p] = Versions
    /\ hist[p].invoked = <<2, 3>>
    /\ Returned(p)

\* C12: no step of Migrate removes a row of schema_migrations: the set of
\* records only grows and the watermark never decreases, in failed calls too.
C12_RecordsOnlyGrow ==
  [][/\ records \subseteq records'
     /\ Watermark(records) <= Watermark(records')]_vars

\* A second call failed on a database that already held two records, and
\* both are still there.
C12_Witness ==
  \E p \in Procs :
    /\ Returned(p)
    /\ hist[p].calls = 2
    /\ hist[p].txFailed
    /\ hist[p].startRecords = {1, 2}
    /\ records = {1, 2}

\* In every state of two concurrent calls: no version's effects are committed
\* twice, effects are visible exactly for the recorded versions, no version
\* was committed by both processes, and a process that read the same
\* watermark as one that committed a version it was also handed has not
\* returned success.
C13_Inv ==
  /\ \A v \in Versions : effects[v] <= 1 /\ (v \in records <=> effects[v] > 0)
  /\ \A p, q \in Procs :
       p # q =>
         /\ hist[p].applied \cap hist[q].applied = {}
         /\ (/\ hist[p].wmRead
             /\ hist[q].wmRead
             /\ maxApplied[p] = maxApplied[q]
             /\ Returned(q)
             /\ hist[p].applied \cap migrations[q] # {})
              => ret[q] # Nil

\* The insert of a version another process has committed fails: the
\* transaction is rolled back, nothing of it becomes visible, and Migrate
\* returns the error.
C13_Step ==
  \A q \in Procs :
    (/\ pc[q] = "insert"
     /\ keys[q][i[q]] \in records
     /\ pc'[q] # "insert")
      => /\ pc'[q] = "idle"
         /\ ret'[q] # Nil
         /\ ~tx'[q].open
         /\ records' = records
         /\ effects' = effects

\* C13: when two processes run Migrate concurrently on the same database and
\* read the same watermark, at most one of them commits a given version; the
\* other's insert for it fails on the primary key, its transaction is rolled
\* back with the body's effects, and its Migrate returns an error; no version
\* has doubly committed effects.
C13_OneWinner == []C13_Inv /\ [][C13_Step]_vars

\* Both processes read the watermark of the empty table; one committed
\* version 1, the other ran the body of 1, failed on the insert and returned
\* the error.
C13_Witness ==
  \E p, q \in Procs :
    /\ p # q
    /\ Returned(p)
    /\ Returned(q)
    /\ hist[p].wmRead
    /\ hist[q].wmRead
    /\ maxApplied[p] = -1
    /\ maxApplied[q] = -1
    /\ 1 \in hist[p].applied
    /\ hist[q].invoked = <<1>>
    /\ ~hist[q].bodyFailed
    /\ ret[q] = <<"insert failed">>
    /\ records = {1}

\* C14: when the watermark query fails with an error that is neither a
\* pq.Error nor a sqlite3.Error, Migrate has returned an error that names
\* "unsupported driver", is not the missing-store sentinel and is not the
\* "failed to select max applied migration" failure; it did not go on to
\* initialize the store and it invoked no body.
C14_UnsupportedDriver ==
  \A p \in Procs :
    hist[p].qerr = "foreign"
      => /\ pc[p] = "idle"
         /\ "unsupported driver" \in Range(ret[p])
         /\ ~Is(ret[p], errMissingSchemaMigration)
         /\ "failed to select max applied migration" \notin Range(ret[p])
         /\ hist[p].invoked = <<>>
         /\ hist[p].inits = 0 => tableExists = hist[p].startTable

\* The table was missing, the driver's error was of no recognized type, and
\* Migrate returned without creating the table.
C14_Witness ==
  \E p \in Procs :
    /\ Returned(p)
    /\ hist[p].qerr = "foreign"
    /\ hist[p].inits = 0
    /\ ~tableExists

\* What C15 says of a call whose watermark query failed: the call has
\* returned with the read transaction finished, the error is wrapped as
\* "failed to select max applied migration", no body was invoked, and records,
\* effects and (unless the call had created it before) the table are as the
\* call found them.
C15_Outcome(p) ==
  /\ pc[p] = "idle"
  /\ ~tx[p].open
  /\ Len(ret[p]) >= 2
  /\ ret[p][1] = "failed to select max applied migration"
  /\ hist[p].invoked = <<>>
  /\ records = hist[p].startRecords
  /\ effects = hist[p].startEffects
  /\ hist[p].inits = 0 => tableExists = hist[p].startTable

\* C15 (as claimed): when the watermark query fails for a reason other than
\* the missing-store condition, the read transaction is rolled back, Migrate
\* returns the error wrapped as "failed to select max applied migration", the
\* store is not initialized, no body is invoked and the database is unchanged.
C15_Original ==
  \A p \in Procs : hist[p].qerr \in {"foreign", "other"} => C15_Outcome(p)

\* C15 (amended): the same, when the failure is reported by a recognized
\* driver (a pq.Error or sqlite3.Error that is not "undefined table").
C15_SelectFailure ==
  \A p \in Procs : hist[p].qerr = "other" => C15_Outcome(p)

\* The query failed on an existing store that holds records.
C15_Witness ==
  \E p \in Procs :
    /\ Returned(p)
    /\ hist[p].qerr = "other"
    /\ tableExists
    /\ records # {}

\* C16: when the missing store is detected and initializing it fails,
\* Migrate has returned the error wrapped as "failed to initialize schema
\* migrations", has not called itself again and has invoked no body.
C16_InitFailure ==
  \A p \in Procs :
    hist[p].initFailed
      => /\ pc[p] = "idle"
         /\ Len(ret[p]) >= 2
         /\ ret[p][1] = "failed to initialize schema migrations"
         /\ hist[p].retries = 0
         /\ hist[p].invoked = <<>>
         /\ ~tableExists

\* A call with migrations to apply found no store and could not create it.
C16_Witness ==
  \E p \in Procs :
    /\ Returned(p)
    /\ hist[p].initFailed
    /\ migrations[p] = Versions
    /\ ~hist[p].startTable

\* The phase an error's outermost context names.  The code has no context
\* for a migration; one would carry the version as its second element.
PhaseOf(err) ==
  IF err = Nil THEN "none"
  ELSE IF err[1] \in {"failed to select max applied migration", "failed to parse error"}
       THEN "watermark"
  ELSE IF err[1] = "failed to initialize schema migrations" THEN "init"
  ELSE IF err[1] = "failed to apply migration" THEN "migration"
  ELSE "none"

\* C17: every error Migrate returns carries a context naming the phase of the
\* failure: the watermark read, the initialization of the store, or the
\* migration that failed, with its version.
C17_PhaseContext ==
  \A p \in Procs :
    (Returned(p) /\ ret[p] # Nil)
      => IF hist[p].txFailed
         THEN /\ PhaseOf(ret[p]) = "migration"
              /\ Len(ret[p]) >= 2
              /\ ret[p][2] = hist[p].failedAt
         ELSE IF hist[p].initFailed THEN PhaseOf(ret[p]) = "init"
         ELSE PhaseOf(ret[p]) = "watermark"

\* No transaction is open outside withTx's closure and its Commit.
C18_Inv ==
  \A p \in Procs :
    tx[p].open => pc[p] \in {"query", "body", "insert", "commit"}

\* db.Begin is called only while the call holds no open transaction.
C18_Step ==
  \A p \in Procs : (~tx[p].open /\ tx'[p].open) => pc[p] = "begin"

\* C18: every transaction withTx begins is committed or rolled back before
\* withTx returns, on every exit path, so none is open when Migrate returns,
\* and a call never holds two at a time.
C18_TxClosed == []C18_Inv /\ [][C18_Step]_vars

\* A call returned after a commit, a failed body and hence a rollback, with
\* no transaction left.
C18_Witness ==
  \E p \in Procs :
    /\ Returned(p)
    /\ hist[p].applied # {}
    /\ hist[p].bodyFailed
    /\ ~tx[p].open

\* C19: no notice "Applied migration V" has been emitted for a version whose
\* transaction then failed to commit and that is unrecorded.
C19_NoticeAfterCommit ==
  \A p \in Procs :
    \A n \in 1..Len(notices[p]) :
      ~(/\ hist[p].txFailed
        /\ hist[p].failedAt = notices[p][n]
        /\ notices[p][n] \notin records)

\* C20: every Migrate call eventually reaches a terminal outcome, DONE or
\* FAILED, given that each database operation and each body returns; the
\* retry after a detected missing store does not recur without bound.
C20_Terminates ==
  \A p \in Procs : (pc[p] # "idle") ~> (pc[p] = "idle")

====
